---- MODULE Spec2Model ----
(***************************************************************************)
(* A model of src/led-banner.js: the PremiumLEDDisplay scrolling LED       *)
(* banner and its factory initLEDBanner.                                   *)
(*                                                                         *)
(* Numbers.  scrollOffset and scrollSpeed are JavaScript doubles; the      *)
(* model keeps them in fixed point, as integer multiples of 1/Scale, so    *)
(* that Math.floor(scrollOffset) is scrollOffset \div Scale and            *)
(* panelWidth is panelWidth * Scale quanta.  All arrays of the source are  *)
(* 0-based; the model keeps them as sequences, so a[i] of the source is    *)
(* a[i + 1] here.  A bitmap that is null and one that is [] behave alike   *)
(* in every guard of the source (lines 310, 338) and are both <<>>.        *)
(***************************************************************************)
EXTENDS Integers, Sequences, FiniteSets, TLC

(***************************************************************************)
(* Bounds of the model.                                                    *)
(***************************************************************************)
Scale == 2
MaxPanelWidth == 2
SmallPanelHeight == 2
MaxSpeed == 5
MaxUnderrun == 2
MaxFailedInits == 2

(***************************************************************************)
(* Program constants.                                                      *)
(***************************************************************************)
fontSize == 32

offColor == "offColor"

colorSequence == <<"red", "green", "blue">>

(***************************************************************************)
(* The inputs: glyphs, texts, option values, container ids.                *)
(***************************************************************************)
Glyphs == {"A", "B"}

\* The empty text, a one-glyph text and a two-glyph text.
Texts == {<<>>, <<"A">>, <<"B", "A">>}

PanelWidths == 1..MaxPanelWidth

\* A panel lower than the 2 * fontSize canvas rows, and one taller.
TallPanelHeight == 2 * fontSize + 1

PanelHeights == {SmallPanelHeight, TallPanelHeight}

ScrollSpeeds == {-1} \cup (1..MaxSpeed)

ContainerSizes == {<<1, 1>>, <<2, 1>>}

ContainerIds == {"led-banner", "missing"}

hostElements == {"led-banner"}

\* The options a banner is constructed with: every combination on the low
\* panel, and the tall panel at width 1 with the slowest and the fastest speed.
OptionSets ==
    [text : Texts \ {<<>>}, panelWidth : PanelWidths, panelHeight : {SmallPanelHeight},
     scrollSpeed : ScrollSpeeds]
    \cup
    [text : {<<"A">>}, panelWidth : {1}, panelHeight : {TallPanelHeight},
     scrollSpeed : {1, MaxSpeed}]

\* The options of the banners whose whole colour cycle is followed: the low
\* panel with one text, a negative speed and the two fastest speeds.
CycleOptionSets ==
    [text : {<<"A">>}, panelWidth : PanelWidths, panelHeight : {SmallPanelHeight},
     scrollSpeed : {-1, MaxSpeed - 1, MaxSpeed}]

VARIABLES
    banner,             \* "absent" | "constructed": the PremiumLEDDisplay instance
    containerArg,       \* the containerId of the last initLEDBanner call
    returned,           \* what the last initLEDBanner call returned
    consoleErrors,      \* number of console.error calls
    options,            \* this.options (text, panelWidth, panelHeight, scrollSpeed)
    scene,              \* this.scene: "null" | "scene"
    textBitmap,         \* this.textBitmap
    scrollOffset,       \* this.scrollOffset, in 1/Scale
    currentColorIndex,  \* this.currentColorIndex
    leds,               \* the colour of each LED mesh, row-major
    ledStates,          \* this.ledStates
    rendered,           \* the frame last drawn by renderer.render
    viewport,           \* renderer size / camera aspect, as <<width, height>>
    rafPending,         \* a requestAnimationFrame callback is scheduled
    resizeListener,     \* the window resize listener is registered
    thrown,             \* the exception the last such operation ended with
    lastOp              \* the last operation that ran on the banner's text, offset
                        \* or grid (a resize shows in viewport alone)

vars ==
    <<banner, containerArg, returned, consoleErrors, options, scene, textBitmap, scrollOffset,
      currentColorIndex, leds, ledStates, rendered, viewport, rafPending,
      resizeListener, thrown, lastOp>>

(***************************************************************************)
(* createTextBitmap (lines 113-163).                                       *)
(***************************************************************************)
canvasWidth(text) == (Len(text) * fontSize * 8) \div 10

canvasHeight == fontSize * 2

\* The red channel of one glyph's pixel, as the browser's fillText leaves it
\* on the black canvas: an abstract stand-in for the font, with anti-aliased
\* values on both sides of the threshold.
GlyphInk(ch, gx, gy) ==
    IF gy < 0 \/ gy >= fontSize THEN 0
    ELSE IF ch = "A"
         THEN (IF gx = 0 THEN 128 ELSE IF (gx + gy) % 2 = 0 THEN 255 ELSE 0)
         ELSE (IF gx = 0 THEN 129 ELSE IF gy % 3 = 0 THEN 200 ELSE 64)

\* data[(y * canvas.width + x) * 4] after fillText(text, 0, canvas.height / 2)
\* with textBaseline 'middle'; glyphs advance by one em.
imageData(text, x, y) ==
    LET g == x \div fontSize IN
    IF g < Len(text)
    THEN GlyphInk(text[g + 1], x % fontSize, y - (canvasHeight \div 2 - fontSize \div 2))
    ELSE 0

\* this.textBitmap[y][x] of the full-height bitmap (line 142)
brightPixel(text, x, y) == imageData(text, x, y) > 128

\* srcY of the downsampling loop (line 154); scaleFactor = panelHeight / rows
srcY(y, panelHeight, rows) ==
    LET q == (y * rows) \div panelHeight IN
    IF q < rows - 1 THEN q ELSE rows - 1

\* The bitmap createTextBitmap leaves in this.textBitmap; getImageData throws
\* IndexSizeError for a canvas of width 0, before this.textBitmap is assigned.
createTextBitmap(text, panelHeight) ==
    LET w == canvasWidth(text) IN
    IF w = 0 THEN [thrown |-> "IndexSizeError", bitmap |-> <<>>]
    ELSE IF canvasHeight > panelHeight
         THEN [thrown |-> "none",
               bitmap |-> [y \in 1..panelHeight |->
                            [x \in 1..w |->
                              brightPixel(text, x - 1,
                                          srcY(y - 1, panelHeight, canvasHeight))]]]
         ELSE [thrown |-> "none",
               bitmap |-> [y \in 1..canvasHeight |->
                            [x \in 1..w |-> brightPixel(text, x - 1, y - 1)]]]

\* createTextBitmap tabulated over the inputs of the model.
BitmapTable ==
    [t \in Texts |-> [h \in PanelHeights |-> createTextBitmap(t, h)]]

textWidth(bitmap) == IF Len(bitmap) = 0 THEN 0 ELSE Len(bitmap[1])

(***************************************************************************)
(* createLEDs (lines 165-285): the state grid and one mesh per cell.       *)
(***************************************************************************)
createLEDs(opts) ==
    [ledStates |-> [y \in 1..opts.panelHeight |-> [x \in 1..opts.panelWidth |-> FALSE]],
     leds |-> [i \in 1..(opts.panelHeight * opts.panelWidth) |-> offColor]]

(***************************************************************************)
(* updateScrollPosition (lines 337-354).                                   *)
(***************************************************************************)
updateScrollPosition_wrapToZero(bitmap, offset, colorIndex, opts) ==
    IF Len(bitmap) = 0 THEN [scrollOffset |-> offset, currentColorIndex |-> colorIndex]
    ELSE LET moved == offset + opts.scrollSpeed IN
         IF moved >= (textWidth(bitmap) + opts.panelWidth) * Scale
         THEN [scrollOffset |-> 0,
               currentColorIndex |-> (colorIndex + 1) % Len(colorSequence)]
         ELSE [scrollOffset |-> moved, currentColorIndex |-> colorIndex]

updateScrollPosition_strictWrap(bitmap, offset, colorIndex, opts) ==
    IF Len(bitmap) = 0 THEN [scrollOffset |-> offset, currentColorIndex |-> colorIndex]
    ELSE LET moved == offset + opts.scrollSpeed IN
         IF moved > (textWidth(bitmap) + opts.panelWidth) * Scale
         THEN [scrollOffset |-> -(opts.panelWidth * Scale),
               currentColorIndex |-> (colorIndex + 1) % Len(colorSequence)]
         ELSE [scrollOffset |-> moved, currentColorIndex |-> colorIndex]

updateScrollPosition_skipColor(bitmap, offset, colorIndex, opts) ==
    IF Len(bitmap) = 0 THEN [scrollOffset |-> offset, currentColorIndex |-> colorIndex]
    ELSE LET moved == offset + opts.scrollSpeed IN
         IF moved >= (textWidth(bitmap) + opts.panelWidth) * Scale
         THEN [scrollOffset |-> -(opts.panelWidth * Scale),
               currentColorIndex |-> (colorIndex + 2) % Len(colorSequence)]
         ELSE [scrollOffset |-> moved, currentColorIndex |-> colorIndex]

updateScrollPosition_stuckColor(bitmap, offset, colorIndex, opts) ==
    IF Len(bitmap) = 0 THEN [scrollOffset |-> offset, currentColorIndex |-> colorIndex]
    ELSE LET moved == offset + opts.scrollSpeed IN
         IF moved >= (textWidth(bitmap) + opts.panelWidth) * Scale
         THEN [scrollOffset |-> -(opts.panelWidth * Scale),
               currentColorIndex |-> colorIndex]
         ELSE [scrollOffset |-> moved, currentColorIndex |-> colorIndex]

updateScrollPosition(bitmap, offset, colorIndex, opts) ==
    IF Len(bitmap) = 0 THEN [scrollOffset |-> offset, currentColorIndex |-> colorIndex]
    ELSE LET moved == offset + opts.scrollSpeed IN
         IF moved >= (textWidth(bitmap) + opts.panelWidth) * Scale
         THEN [scrollOffset |-> -(opts.panelWidth * Scale),
               currentColorIndex |-> (colorIndex + 1) % Len(colorSequence)]
         ELSE [scrollOffset |-> moved, currentColorIndex |-> colorIndex]

(***************************************************************************)
(* updateLEDs (lines 297-335).                                             *)
(***************************************************************************)
\* Math.floor(this.scrollOffset)
floorOffset_truncate(offset) ==
    IF offset >= 0 THEN offset \div Scale ELSE -((-offset) \div Scale)

floorOffset(offset) == offset \div Scale

\* isOn of cell (x, y), lines 305-315
isOn(bitmap, offset, x, y) ==
    LET bitmapX == x + floorOffset(offset) IN
    IF /\ Len(bitmap) > 0
       /\ y < Len(bitmap)
       /\ bitmapX >= 0
       /\ bitmapX < Len(bitmap[1])
    THEN bitmap[y + 1][bitmapX + 1]
    ELSE FALSE

updateLEDs(bitmap, offset, colorIndex, opts, oldLeds, oldStates) ==
    LET currentColor == colorSequence[colorIndex + 1]
        pw == opts.panelWidth
        ph == opts.panelHeight
        on == [r \in 1..ph |-> [c \in 1..pw |-> isOn(bitmap, offset, c - 1, r - 1)]]
    IN  [leds |->
            [i \in 1..Len(oldLeds) |->
                IF (i - 1) \div pw < ph
                THEN (IF on[((i - 1) \div pw) + 1][((i - 1) % pw) + 1]
                      THEN currentColor ELSE offColor)
                ELSE oldLeds[i]],
         ledStates |->
            [r \in 1..ph |-> [c \in 1..pw |->
                IF (r - 1) * pw + (c - 1) < Len(oldLeds)
                THEN on[r][c]
                ELSE oldStates[r][c]]]]

(***************************************************************************)
(* animate (lines 356-369): the tick, the recompute, the render.           *)
(***************************************************************************)
animateBody_staleGrid(bitmap, offset, colorIndex, opts, oldLeds, oldStates) ==
    LET grid == updateLEDs(bitmap, offset, colorIndex, opts, oldLeds, oldStates)
        tick == updateScrollPosition(bitmap, offset, colorIndex, opts)
    IN  [scrollOffset |-> tick.scrollOffset,
         currentColorIndex |-> tick.currentColorIndex,
         leds |-> grid.leds,
         ledStates |-> grid.ledStates,
         rendered |-> grid.leds]

animateBody(bitmap, offset, colorIndex, opts, oldLeds, oldStates) ==
    LET tick == updateScrollPosition(bitmap, offset, colorIndex, opts)
        grid == updateLEDs(bitmap, tick.scrollOffset, tick.currentColorIndex, opts,
                           oldLeds, oldStates)
    IN  [scrollOffset |-> tick.scrollOffset,
         currentColorIndex |-> tick.currentColorIndex,
         leds |-> grid.leds,
         ledStates |-> grid.ledStates,
         rendered |-> grid.leds]

(***************************************************************************)
(* The state before initLEDBanner runs: the fields as the constructor's    *)
(* initialisers leave them (lines 16-33), nothing constructed.             *)
(***************************************************************************)
noOptions == [text |-> <<>>, panelWidth |-> 0, panelHeight |-> 0, scrollSpeed |-> 0]

Init ==
    /\ banner = "absent"
    /\ containerArg = "none"
    /\ returned = "none"
    /\ consoleErrors = 0
    /\ options = noOptions
    /\ scene = "null"
    /\ textBitmap = <<>>
    /\ scrollOffset = 0
    /\ currentColorIndex = 0
    /\ leds = <<>>
    /\ ledStates = <<>>
    /\ rendered = <<>>
    /\ viewport = <<0, 0>>
    /\ rafPending = FALSE
    /\ resizeListener = FALSE
    /\ thrown = "none"
    /\ lastOp = "none"

(***************************************************************************)
(* initLEDBanner (lines 380-390) and the constructor (lines 2-43).         *)
(***************************************************************************)
containerFound_always(containerId) == TRUE

\* document.getElementById(containerId) is truthy
containerFound(containerId) == containerId \in hostElements

\* new PremiumLEDDisplay({container, ...options}): init(), createTextBitmap(),
\* createLEDs(), animate(), addEventListener('resize', ...)
constructBanner(o, size) ==
    \E made \in {createLEDs(o)} :
    \E frame \in {animateBody(BitmapTable[o.text][o.panelHeight].bitmap, 0, 0, o,
                              made.leds, made.ledStates)} :
        /\ banner' = "constructed"
        /\ options' = o
        /\ scene' = "scene"
        /\ viewport' = size
        /\ textBitmap' = BitmapTable[o.text][o.panelHeight].bitmap
        /\ scrollOffset' = frame.scrollOffset
        /\ currentColorIndex' = frame.currentColorIndex
        /\ leds' = frame.leds
        /\ ledStates' = frame.ledStates
        /\ rendered' = frame.rendered
        /\ rafPending' = TRUE
        /\ resizeListener' = TRUE
        /\ returned' = "banner"
        /\ UNCHANGED consoleErrors

initLEDBannerWith(optionSets) ==
    /\ banner = "absent"
    /\ \E containerId \in ContainerIds :
          /\ containerArg' = containerId
          /\ IF containerFound(containerId)
             THEN \E o \in optionSets, size \in ContainerSizes : constructBanner(o, size)
             ELSE /\ consoleErrors < MaxFailedInits
                  /\ consoleErrors' = consoleErrors + 1
                  /\ returned' = "null"
                  /\ UNCHANGED <<banner, options, scene, textBitmap, scrollOffset,
                                 currentColorIndex, leds, ledStates, rendered, viewport,
                                 rafPending, resizeListener>>
    /\ thrown' = "none"
    /\ lastOp' = "initLEDBanner"

initLEDBanner == initLEDBannerWith(OptionSets)

\* initLEDBanner for the fast banners of CycleOptionSets
initLEDBannerFast == initLEDBannerWith(CycleOptionSets)

(***************************************************************************)
(* animate (lines 356-369), one call of the frame callback.  The guard on  *)
(* the offset only keeps a negative scrollSpeed from running for ever.     *)
(***************************************************************************)
animate ==
    /\ banner = "constructed"
    /\ rafPending
    /\ scrollOffset + options.scrollSpeed >= -(options.panelWidth * Scale + MaxUnderrun)
    /\ \E frame \in {animateBody(textBitmap, scrollOffset, currentColorIndex, options,
                                leds, ledStates)} :
           /\ scrollOffset' = frame.scrollOffset
           /\ currentColorIndex' = frame.currentColorIndex
           /\ leds' = frame.leds
           /\ ledStates' = frame.ledStates
           /\ rendered' = frame.rendered
    /\ rafPending' = TRUE
    /\ thrown' = "none"
    /\ lastOp' = "animate"
    /\ UNCHANGED <<banner, containerArg, returned, consoleErrors, options, scene, textBitmap,
                   viewport, resizeListener>>

(***************************************************************************)
(* setText (lines 372-376).                                                *)
(***************************************************************************)
setText ==
    /\ banner = "constructed"
    /\ \E text \in Texts :
          LET made == BitmapTable[text][options.panelHeight] IN
          /\ options' = [options EXCEPT !.text = text]
          /\ scrollOffset' = -(options.panelWidth * Scale)
          /\ textBitmap' = IF made.thrown = "none" THEN made.bitmap ELSE textBitmap
          /\ thrown' = made.thrown
    /\ lastOp' = "setText"
    /\ UNCHANGED <<banner, containerArg, returned, consoleErrors, scene, currentColorIndex, leds,
                   ledStates, rendered, viewport, rafPending, resizeListener>>

(***************************************************************************)
(* onWindowResize (lines 92-99).                                           *)
(***************************************************************************)
onWindowResize ==
    /\ banner = "constructed"
    /\ resizeListener
    /\ \E size \in ContainerSizes : viewport' = size
    /\ UNCHANGED <<banner, containerArg, returned, consoleErrors, options, scene, textBitmap,
                   scrollOffset, currentColorIndex, leds, ledStates, rendered,
                   rafPending, resizeListener, thrown, lastOp>>

Next == initLEDBanner \/ animate \/ setText \/ onWindowResize

Spec == Init /\ [][Next]_vars

\* The browser calls the scheduled frame callback: animate is weakly fair.
FairSpec == Init /\ [][Next]_vars /\ WF_vars(animate)

\* The same for the banners of CycleOptionSets, without resize events.
CycleNext == initLEDBannerFast \/ animate \/ setText

CycleSpec == Init /\ [][CycleNext]_vars /\ WF_vars(animate)

(***************************************************************************)
(* Vocabulary of the properties.                                           *)
(***************************************************************************)
constructed == banner = "constructed"

\* The state right after a tick: after animate, or after the constructor,
\* which calls animate once itself (line 39).
AfterTick == constructed /\ lastOp \in {"animate", "initLEDBanner"}

\* -panelWidth and bitmapWidth + panelWidth, in 1/Scale
lowerBound == -(options.panelWidth * Scale)

upperBound == (textWidth(textBitmap) + options.panelWidth) * Scale

offsetInRange == lowerBound <= scrollOffset /\ scrollOffset < upperBound

\* A step that is one call of animate: by the frame callback or by the constructor.
TickStep ==
    \/ constructed /\ lastOp' = "animate" /\ viewport' = viewport
    \/ banner = "absent" /\ banner' = "constructed"

SetTextStep == constructed /\ lastOp' = "setText" /\ viewport' = viewport

\* old offset + speed and the wrap threshold of the tick a TickStep makes
movedOffset == scrollOffset + options'.scrollSpeed

wrapThreshold == (textWidth(textBitmap') + options'.panelWidth) * Scale

\* floor(offset), from the definition of floor
mathFloor(q) ==
    LET a == IF q < 0 THEN -q ELSE q IN
    CHOOSE k \in -(a + 1)..(a + 1) : k * Scale <= q /\ q < (k + 1) * Scale

\* The reference formula of the grid: cell (row, col) is on, for floorOfOffset
\* the floor of the scroll offset
referenceOn(row, col, floorOfOffset) ==
    LET bitmapCol == col + floorOfOffset IN
    /\ row < Len(textBitmap)
    /\ 0 <= bitmapCol
    /\ bitmapCol < textWidth(textBitmap)
    /\ textBitmap[row + 1][bitmapCol + 1]

Rows == 0..(options.panelHeight - 1)

Cols == 0..(options.panelWidth - 1)

(***************************************************************************)
(* C1.  Scroll-offset range.                                               *)
(***************************************************************************)
\* C1 (as amended): for every configured speed with 0 < speed < panelWidth,
\* the scroll offset lies in [-panelWidth, bitmapWidth + panelWidth) right
\* after every tick, whatever ticks and setText calls came before.
C1_OffsetInRange ==
    (AfterTick /\ 0 < options.scrollSpeed /\ options.scrollSpeed < options.panelWidth * Scale)
        => offsetInRange

\* C1 as stated: the same for every configured speed less than panelWidth,
\* the negative ones included.
C1_OffsetInRange_AnySpeed ==
    (AfterTick /\ options.scrollSpeed < options.panelWidth * Scale) => offsetInRange

\* A tick of a slow banner has just wrapped the offset.
C1_Witness ==
    /\ lastOp = "animate"
    /\ 0 < options.scrollSpeed /\ options.scrollSpeed < options.panelWidth * Scale
    /\ scrollOffset = lowerBound
    /\ currentColorIndex = 1

(***************************************************************************)
(* C2.  The step a tick makes.                                             *)
(***************************************************************************)
\* C2: every tick sets the offset to old offset + speed when that is below
\* bitmapWidth + panelWidth, and to -panelWidth otherwise; a tick that does
\* not wrap never leaves the offset unchanged.
C2_TickStep ==
    [][TickStep =>
         /\ movedOffset < wrapThreshold =>
               (scrollOffset' = movedOffset /\ scrollOffset' # scrollOffset)
         /\ movedOffset >= wrapThreshold =>
               scrollOffset' = -(options'.panelWidth * Scale)]_vars

\* Ticks have advanced the offset to a fractional position on screen after
\* two wraps.
C2_Witness ==
    /\ lastOp = "animate"
    /\ currentColorIndex = 2
    /\ scrollOffset > 0
    /\ scrollOffset % Scale # 0

(***************************************************************************)
(* C3.  The colour cycle.                                                  *)
(***************************************************************************)
\* C3: colorIndex stays within 0..paletteSize-1; it changes only in a tick
\* that wraps the offset, and every wrapping tick makes it
\* (colorIndex + 1) mod paletteSize; setText, resize and a tick that does
\* not wrap leave it alone.
C3_ColorCycle ==
    /\ [](currentColorIndex \in 0..(Len(colorSequence) - 1))
    /\ [][currentColorIndex' # currentColorIndex =>
            (TickStep /\ movedOffset >= wrapThreshold)]_vars
    /\ [][(TickStep /\ movedOffset >= wrapThreshold) =>
            currentColorIndex' = (currentColorIndex + 1) % Len(colorSequence)]_vars

\* The text was replaced and the viewport resized after two wraps, and the
\* colour index still is 2.
C3_Witness ==
    /\ lastOp = "setText"
    /\ viewport = <<2, 1>>
    /\ currentColorIndex = 2

(***************************************************************************)
(* C4.  setText.                                                           *)
(***************************************************************************)
\* C4: after setText(T), for any text T, the bitmap is the rasterization of
\* T and the offset is -panelWidth: never the new offset with the old bitmap.
C4_SetTextEffect ==
    lastOp = "setText" =>
        /\ thrown = "none"
        /\ scrollOffset = lowerBound
        /\ textBitmap = createTextBitmap(options.text, options.panelHeight).bitmap

(***************************************************************************)
(* C5.  The grid recompute.                                                *)
(***************************************************************************)
\* C5: after every recompute the grid has panelHeight rows of panelWidth
\* cells, and cell (row, col) is on iff row < bitmap.height and
\* 0 <= col + floor(offset) < bitmap.width and the bitmap is on there.
C5_GridMatchesFormula ==
    AfterTick =>
        \E fl \in {mathFloor(scrollOffset)} :
            /\ Len(ledStates) = options.panelHeight
            /\ \A row \in Rows :
                  /\ Len(ledStates[row + 1]) = options.panelWidth
                  /\ \A col \in Cols :
                        ledStates[row + 1][col + 1] = referenceOn(row, col, fl)

\* A recompute on a panel taller than the bitmap, at a fractional offset,
\* with a cell on.
C5_Witness ==
    /\ lastOp = "animate"
    /\ options.panelHeight > Len(textBitmap)
    /\ scrollOffset % Scale # 0
    /\ \E row \in Rows, col \in Cols : ledStates[row + 1][col + 1]

(***************************************************************************)
(* C6.  The frame: tick, recompute, render.                                *)
(***************************************************************************)
\* C6: the frame a frame callback renders is the recompute of the current
\* bitmap at the offset and colour index its own tick produced: each on cell
\* carries the current palette colour, each off cell the off-colour.
C6_RenderedFrameCurrent ==
    AfterTick =>
        \E fl \in {mathFloor(scrollOffset)} :
            /\ Len(rendered) = options.panelHeight * options.panelWidth
            /\ \A row \in Rows, col \in Cols :
                  rendered[row * options.panelWidth + col + 1] =
                      IF referenceOn(row, col, fl)
                      THEN colorSequence[currentColorIndex + 1]
                      ELSE offColor

\* A frame drawn in the second palette colour, for a text set after construction.
C6_Witness ==
    /\ lastOp = "animate"
    /\ options.text = <<"B", "A">>
    /\ textWidth(textBitmap) = canvasWidth(<<"B", "A">>)
    /\ options.panelWidth = 1
    /\ options.panelHeight = TallPanelHeight
    /\ \E i \in 1..Len(rendered) : rendered[i] = "green"

(***************************************************************************)
(* C7.  A text of zero width.                                              *)
(***************************************************************************)
\* C7: rasterization never fails, and the bitmap it leaves has width >= 1
\* (width 1 and no pixel on for a text that rasterizes to zero width).
C7_MinimumWidth ==
    lastOp = "setText" =>
        /\ thrown = "none"
        /\ textWidth(textBitmap) >= 1
        /\ canvasWidth(options.text) = 0 =>
              /\ textWidth(textBitmap) = 1
              /\ \A y \in 1..Len(textBitmap) : ~textBitmap[y][1]

(***************************************************************************)
(* C8.  The missing container.                                             *)
(***************************************************************************)
\* C8: after initLEDBanner with an id no host element has, nothing is
\* constructed, an error is logged and null is returned without an
\* exception; with an id of a host element a constructed banner is returned.
C8_MissingContainer ==
    /\ (containerArg \in ContainerIds /\ containerArg \notin hostElements) =>
          /\ returned = "null"
          /\ banner = "absent"
          /\ scene = "null" /\ textBitmap = <<>> /\ ledStates = <<>> /\ leds = <<>>
          /\ ~rafPending /\ ~resizeListener
          /\ consoleErrors >= 1
          /\ thrown = "none"
    /\ containerArg \in hostElements =>
          /\ returned = "banner"
          /\ constructed /\ scene = "scene" /\ rafPending /\ resizeListener

\* Two calls with a missing container have returned null.
C8_Witness ==
    /\ containerArg = "missing"
    /\ returned = "null"
    /\ consoleErrors = 2
    /\ banner = "absent"

(***************************************************************************)
(* C9.  The cycle never ends.                                              *)
(***************************************************************************)
\* C9: a constructed banner always has its frame callback scheduled, and
\* with a positive speed and only finitely many setText calls the offset
\* wraps infinitely often and every palette colour is the active colour
\* infinitely often.
C9_InfiniteCycle ==
    /\ [](constructed => rafPending)
    /\ \/ []<><<SetTextStep>>_vars
       \/ /\ []<>((constructed /\ options.scrollSpeed > 0) =>
                     (lastOp = "animate" /\ scrollOffset = lowerBound))
          /\ \A c \in 0..(Len(colorSequence) - 1) :
                []<>((constructed /\ options.scrollSpeed > 0) => currentColorIndex = c)

\* A banner with a positive speed has come back to its first colour after
\* three wraps' worth of ticks that followed a setText.
C9_Witness ==
    /\ lastOp = "animate"
    /\ options.scrollSpeed > 0
    /\ options.text = <<"B", "A">>
    /\ textWidth(textBitmap) = canvasWidth(<<"B", "A">>)
    /\ options.panelHeight = SmallPanelHeight
    /\ currentColorIndex = 0
    /\ scrollOffset = lowerBound

(***************************************************************************)
(* C10.  Speeds above panelWidth.                                          *)
(***************************************************************************)
\* C10 (as amended): also when speed exceeds panelWidth the wrap check is
\* made in every tick: right after a tick the offset is below
\* bitmapWidth + panelWidth, so no tick leaves the offset out of range
\* above with the colour index not advanced.
C10_NoOvershoot ==
    (AfterTick /\ options.scrollSpeed > options.panelWidth * Scale)
        => scrollOffset < upperBound

\* C10 as stated: with speed above panelWidth some tick skips the wrap
\* check, leaving the offset at or above bitmapWidth + panelWidth.
C10_OvershootOccurs ==
    (constructed /\ options.scrollSpeed > options.panelWidth * Scale)
        ~> (AfterTick /\ scrollOffset >= upperBound)

\* A tick of a banner faster than its panel is wide has wrapped the offset
\* and advanced the colour.
C10_Witness ==
    /\ lastOp = "animate"
    /\ options.scrollSpeed > options.panelWidth * Scale
    /\ scrollOffset = lowerBound
    /\ currentColorIndex # 0

====
